---- MODULE Spec2Model ----
(***************************************************************************)
(* Meeting history store (src/meeting_history.py): the MeetingRecord data  *)
(* class, the SQLite-backed MeetingHistoryManager (primary table           *)
(* `meetings`, FTS5 index `meetings_fts`), and its analytics reports.      *)
(*                                                                         *)
(* Python values that may be None are modelled as options: None is the     *)
(* empty tuple and a present value v is the 1-tuple <<v>>.  Dictionaries   *)
(* are functions from keys to values, lists are sequences.  Timestamps are *)
(* [d, us] (whole part, microsecond part); sentiment and effectiveness     *)
(* scores are integers counting tenths.                                    *)
(***************************************************************************)
EXTENDS Integers, Sequences, FiniteSets, TLC

VARIABLES
    meetings,     \* committed rows of table `meetings`
    fts,          \* committed entries of the FTS5 index `meetings_fts`
    tx,           \* the open write transaction (working copy), or NoTx
    pc,           \* per caller: position inside the running operation
    call,         \* per caller: the operation last started and its arguments
    returned,     \* per caller: the last finished operation and its return value
    raised,       \* per caller: TRUE iff the last operation raised to its caller
    local,        \* per caller: locals of a multi-step operation
    pre,          \* per caller: committed <<meetings, fts>> when the call started
    stored,       \* history: per id, the record last stored with result True
    storeCount,   \* history: per id, the number of stores with result True
    dbAvailable,  \* whether sqlite3.connect(db_path) succeeds
    active,       \* the callers that issue operations
    unreleased    \* a connection opened by a returned call is still open

vars == <<meetings, fts, tx, pc, call, returned, raised, local, pre, stored,
          storeCount, dbAvailable, active, unreleased>>

----------------------------------------------------------------------------
(* Bounds of the model *)

MaxStores == 3      \* successful store calls per behaviour (caps the rowids)
MaxLimit  == 2      \* LIMIT arguments range over 0..MaxLimit
MaxDays   == 2      \* analytics windows range over 0..MaxDays days

----------------------------------------------------------------------------
(* Python values *)

None == <<>>
Some(v) == <<v>>
IsNone(o) == o = None
Val(o) == o[1]

EmptyDict == [k \in {} |-> None]

\* d.get(k, default)
DictGet(d, k, default) == IF k \in DOMAIN d THEN d[k] ELSE default

\* datetime values: [d |-> whole part, us |-> microsecond part]
DateTime(d, us) == [d |-> d, us |-> us]

\* datetime.isoformat(): the microsecond field is printed only when non-zero.
\* The text is the sequence of its fixed-width fields.
IsoFormat(dt) == IF dt.us = 0 THEN <<dt.d>> ELSE <<dt.d, dt.us>>

\* The unparsable date text of a damaged row
BadDateText == <<0, 0, 0>>

\* datetime.fromisoformat(text)
FromIsoFormat(text) ==
    IF Len(text) = 1 THEN DateTime(text[1], 0) ELSE DateTime(text[1], text[2])

\* SQLite's comparison of two TEXT values (memcmp, shorter prefix first)
RECURSIVE TextLess(_, _)
TextLess(a, b) ==
    IF b = <<>> THEN FALSE
    ELSE IF a = <<>> THEN TRUE
    ELSE IF Head(a) # Head(b) THEN Head(a) < Head(b)
    ELSE TextLess(Tail(a), Tail(b))

TextLeq(a, b) == a = b \/ TextLess(a, b)

\* json.dumps(v): the JSON text that encodes v (None encodes as the text "null",
\* which is a TEXT value, not SQL NULL)
JsonDumps(v) == [json |-> v]

\* The unparsable JSON text of a damaged row
BadJson == [bad |-> TRUE]

\* json.loads raises on BadJson; callers test JsonOk first
JsonOk(text) == text # BadJson
JsonLoads(text) == text.json

----------------------------------------------------------------------------
(* Record model *)

\* dataclass MeetingRecord
MeetingRecord(id, title, date, participants, transcript, summary, sentiment_analysis, coach_feedback, duration_minutes, meeting_type, tags) ==
    [id |-> id, title |-> title, date |-> date, participants |-> participants,
     transcript |-> transcript, summary |-> summary,
     sentiment_analysis |-> sentiment_analysis,
     coach_feedback |-> coach_feedback, duration_minutes |-> duration_minutes,
     meeting_type |-> meeting_type, tags |-> tags]

\* MeetingRecord(...) with duration_minutes, meeting_type and tags left out
MeetingRecordDefaults(id, title, date, participants, transcript, summary, sentiment_analysis, coach_feedback) ==
    MeetingRecord(id, title, date, participants, transcript, summary,
                  sentiment_analysis, coach_feedback, None, None, None)

----------------------------------------------------------------------------
(* Database schema created by _init_database *)

\* Columns of CREATE TABLE meetings
MeetingsColumns ==
    {"id", "title", "date", "participants", "transcript", "summary",
     "sentiment_analysis", "coach_feedback", "duration_minutes",
     "meeting_type", "tags", "created_at"}

\* Columns of meetings declared NOT NULL
NotNullColumns ==
    {"title", "date", "participants", "transcript", "summary",
     "sentiment_analysis", "coach_feedback", "created_at"}

\* Columns of CREATE VIRTUAL TABLE meetings_fts USING fts5(..., content='meetings')
FtsColumns == {"id", "title", "transcript", "summary_text", "tags"}

\* meetings_fts is an external-content table: the index keeps only tokens per
\* rowid, and reading a column value of meetings_fts (SELECT fts.id, WHERE id = ?,
\* the join in search_meetings) selects every FtsColumns column from the content
\* table `meetings`.  That read fails with "no such column" unless the content
\* table has all of them.
FtsContentReadable == FtsColumns \subseteq MeetingsColumns

\* Rowid given to a row inserted without an explicit rowid
Max(S) == CHOOSE m \in S : \A n \in S : n <= m
NextRowid(table) ==
    IF table = {} THEN 1 ELSE Max({row.rowid : row \in table}) + 1

----------------------------------------------------------------------------
(* store_meeting: column values and search-text projection *)

\* meeting_record.tags or []
TagsOrEmpty(tags) ==
    IF IsNone(tags) \/ Val(tags) = <<>> THEN <<>> ELSE Val(tags)

\* created_at = datetime.now().isoformat().  No operation reads the column
\* back (_row_to_meeting_record stops at row[10]), so the model keeps only
\* that the value is a text and not NULL.
CreatedAt == Some(<<>>)

\* The parameter tuple of INSERT OR REPLACE INTO meetings (lines 101-127)
ToRow(r, rowid) ==
    [rowid |-> rowid,
     id |-> r.id,
     title |-> r.title,
     date |-> Some(IsoFormat(r.date)),
     participants |-> Some(JsonDumps(r.participants)),
     transcript |-> r.transcript,
     summary |-> Some(JsonDumps(r.summary)),
     sentiment_analysis |-> Some(JsonDumps(r.sentiment_analysis)),
     coach_feedback |-> Some(JsonDumps(r.coach_feedback)),
     duration_minutes |-> r.duration_minutes,
     meeting_type |-> r.meeting_type,
     tags |-> Some(JsonDumps(Some(TagsOrEmpty(r.tags)))),
     created_at |-> CreatedAt]

\* A NULL in a NOT NULL column aborts the INSERT OR REPLACE (no column default)
NotNullViolated(row) == \E col \in NotNullColumns : IsNone(row[col])

\* INSERT OR REPLACE INTO meetings: rows with the same primary key are deleted,
\* then the new row is inserted
InsertOrReplace(table, row) ==
    {old \in table : old.id # row.id} \cup {row}

\* [x.get(key, '') for x in items]
GetAll(items, key) ==
    [i \in 1..Len(items) |-> DictGet(items[i], key, Some(""))]

\* text_parts of _extract_summary_text, for a summary that is a dict
TextParts(summary) ==
    (IF "key_points" \in DOMAIN summary
        THEN GetAll(summary.key_points, "point") ELSE <<>>)
    \o (IF "action_items" \in DOMAIN summary
        THEN GetAll(summary.action_items, "task")
             \o GetAll(summary.action_items, "assignee")
        ELSE <<>>)
    \o (IF "decisions" \in DOMAIN summary
        THEN GetAll(summary.decisions, "decision") ELSE <<>>)

\* _extract_summary_text raises TypeError: `in` applied to None, or ' '.join
\* given a part that is not a str
ExtractRaises(summary) ==
    \/ IsNone(summary)
    \/ \E i \in DOMAIN TextParts(Val(summary)) : IsNone(TextParts(Val(summary))[i])

\* ' '.join(parts): a text is modelled as the sequence of its space-separated
\* pieces (an empty piece stands for two adjacent spaces)
JoinSpace(parts) == [i \in 1..Len(parts) |-> Val(parts[i])]

\* _extract_summary_text(summary), when it does not raise
ExtractSummaryText(summary) == JoinSpace(TextParts(Val(summary)))

\* The parameter tuple of INSERT OR REPLACE INTO meetings_fts (lines 130-141)
ToFtsEntry(r, rowid) ==
    [rowid |-> rowid,
     id |-> r.id,
     title |-> r.title,
     transcript |-> r.transcript,
     summary_text |-> ExtractSummaryText(r.summary),
     tags |-> TagsOrEmpty(r.tags)]

\* INSERT OR REPLACE INTO meetings_fts without a rowid: FTS5 columns carry no
\* uniqueness constraint, so nothing conflicts and the entry is added under a
\* fresh rowid
FtsInsert(index, r) == index \cup {ToFtsEntry(r, NextRowid(index))}

\* Tokens indexed for an entry
Range(f) == {f[i] : i \in DOMAIN f}
Tokens(e) ==
    ({e.id} \cup Range(e.title) \cup Range(e.transcript)
       \cup Range(e.summary_text) \cup Range(e.tags)) \ {""}

----------------------------------------------------------------------------
(* _row_to_meeting_record *)

\* datetime.fromisoformat and every json.loads of the row succeed
RowParses(row) ==
    /\ Val(row.date) # BadDateText
    /\ JsonOk(Val(row.participants))
    /\ JsonOk(Val(row.summary))
    /\ JsonOk(Val(row.sentiment_analysis))
    /\ JsonOk(Val(row.coach_feedback))
    /\ (IsNone(row.tags) \/ JsonOk(Val(row.tags)))

RowToMeetingRecord(row) ==
    MeetingRecord(row.id, row.title, FromIsoFormat(Val(row.date)),
                  JsonLoads(Val(row.participants)), row.transcript,
                  JsonLoads(Val(row.summary)),
                  JsonLoads(Val(row.sentiment_analysis)),
                  JsonLoads(Val(row.coach_feedback)),
                  row.duration_minutes, row.meeting_type,
                  IF IsNone(row.tags) THEN Some(<<>>)
                  ELSE JsonLoads(Val(row.tags)))

----------------------------------------------------------------------------
(* Queries *)

\* Mutant of OrderByDateDesc: ORDER BY date (ascending)
RECURSIVE OrderByDateAsc(_)
OrderByDateAsc(rows) ==
    IF rows = {} THEN {<<>>}
    ELSE LET low == {r \in rows :
                       \A o \in rows : TextLeq(Val(r.date), Val(o.date))}
         IN UNION {{<<r>> \o s : s \in OrderByDateAsc(rows \ {r})} : r \in low}

\* ORDER BY date DESC: every ordering of the rows in which the date texts do
\* not increase (SQLite leaves the order of equal keys unspecified)
RECURSIVE OrderByDateDesc(_)
OrderByDateDesc(rows) ==
    IF rows = {} THEN {<<>>}
    ELSE LET top == {r \in rows :
                       \A o \in rows : TextLeq(Val(o.date), Val(r.date))}
         IN UNION {{<<r>> \o s : s \in OrderByDateDesc(rows \ {r})} : r \in top}

\* Every ordering of a set of rows (ORDER BY rank)
RECURSIVE AnyOrder(_)
AnyOrder(rows) ==
    IF rows = {} THEN {<<>>}
    ELSE UNION {{<<r>> \o s : s \in AnyOrder(rows \ {r})} : r \in rows}

\* LIMIT n: a negative n means no limit
Limit(seq, n) == IF n < 0 \/ n >= Len(seq) THEN seq ELSE SubSeq(seq, 1, n)

\* Mutant of Between: date > lo AND date < hi
StrictlyBetween(text, lo, hi) == TextLess(lo, text) /\ TextLess(text, hi)

\* date BETWEEN lo AND hi, on TEXT values
Between(text, lo, hi) == TextLeq(lo, text) /\ TextLeq(text, hi)

\* Mutant of TryExcept: no handler, the exception reaches the caller
NoExcept(body, default) ==
    [raised |-> body.exc, val |-> IF body.exc THEN default ELSE body.val]

\* The try/except Exception around every public method: an exception inside
\* the body is printed and the method returns its default value.
\* body = [exc |-> the body raised, val |-> the value it returned otherwise]
TryExcept(body, default) ==
    [raised |-> FALSE, val |-> IF body.exc THEN default ELSE body.val]

\* [self._row_to_meeting_record(row) for row in cursor.fetchall()]
RowsToRecords(rows) == [i \in 1..Len(rows) |-> RowToMeetingRecord(rows[i])]
AllRowsParse(rows) == \A i \in 1..Len(rows) : RowParses(rows[i])

\* get_meeting(meeting_id) against the committed table
GetMeeting(table, available, id) ==
    LET found == {row \in table : row.id = id}
        row == CHOOSE r \in found : TRUE
    IN TryExcept([exc |-> ~available \/ (found # {} /\ ~RowParses(row)),
                  val |-> IF found # {} /\ RowParses(row)
                          THEN Some(RowToMeetingRecord(row)) ELSE None],
                 None)

\* Result of a list query whose SELECT produced `rows`
ListResult(available, rows) ==
    TryExcept([exc |-> ~available \/ ~AllRowsParse(rows),
               val |-> IF AllRowsParse(rows) THEN RowsToRecords(rows) ELSE <<>>],
              <<>>)

\* get_recent_meetings(limit): the possible results
GetRecentMeetings(table, available, limit) ==
    {ListResult(available, Limit(s, limit)) : s \in OrderByDateDesc(table)}

\* get_meetings_by_date_range(start_date, end_date): the possible results
GetMeetingsByDateRange(table, available, start, end) ==
    LET hit == {row \in table :
                  Between(Val(row.date), IsoFormat(start), IsoFormat(end))}
    IN {ListResult(available, s) : s \in OrderByDateDesc(hit)}

\* Rows produced by the join of search_meetings when the index columns can be
\* read: the content row of every entry matching the query
SearchHits(table, index, query) ==
    {row \in table :
        \E e \in index : e.rowid = row.rowid /\ query \in Tokens(e)}

\* search_meetings(query, limit): the possible results
SearchMeetings(table, index, available, query, limit) ==
    IF FtsContentReadable
    THEN {ListResult(available, Limit(s, limit)) :
            s \in AnyOrder(SearchHits(table, index, query))}
    ELSE {TryExcept([exc |-> TRUE, val |-> <<>>], <<>>)}

----------------------------------------------------------------------------
(* Analytics *)

RECURSIVE SumSeq(_)
SumSeq(q) == IF q = <<>> THEN 0 ELSE Head(q) + SumSeq(Tail(q))

Min(S) == CHOOSE m \in S : \A n \in S : m <= n

\* round(a / b, k) on non-negative operands already scaled by 10^k:
\* Python rounds an exact half to the even neighbour
RoundDiv(a, b) ==
    LET q == a \div b
        r == a % b
    IN IF 2 * r > b THEN q + 1
       ELSE IF 2 * r < b THEN q
       ELSE IF q % 2 = 0 THEN q ELSE q + 1

\* The two explicit results of the reports that carry no report key
NoMeetingsResult == [error |-> "No meetings found in the specified time range"]
NoSentimentResult == [error |-> "No sentiment data available"]
AnalysisFailedResult == [error |-> "Analysis failed"]
ReportFailedResult == [error |-> "Report generation failed"]

\* end_date = datetime.now(); start_date = end_date - timedelta(days=days)
WindowEnd(clock) == DateTime(clock, 0)
WindowStart(clock, days) == DateTime(clock - days, 0)

\* isinstance(sentiment_data, dict) and 'overall_score' in sentiment_data
HasScore(m) ==
    /\ ~IsNone(m.sentiment_analysis)
    /\ "overall_score" \in DOMAIN Val(m.sentiment_analysis)

\* Mutant of TrendReport: the direction compares the scores in chronological
\* order (latest score against earliest) instead of fetch order
TrendReportChronological(ms, days) ==
    LET scored == SelectSeq(ms, HasScore)
        scores == [i \in 1..Len(scored) |->
                     Val(scored[i].sentiment_analysis).overall_score]
        dates  == [i \in 1..Len(scored) |-> scored[i].date.d]
    IN IF ms = <<>> THEN NoMeetingsResult
       ELSE IF scores = <<>> THEN NoSentimentResult
       ELSE [period_days |-> days,
             meetings_analyzed |-> Len(ms),
             average_sentiment |-> RoundDiv(SumSeq(scores) * 10, Len(scores)),
             trend |-> IF Len(scores) > 1 /\ scores[1] > scores[Len(scores)]
                       THEN "improving" ELSE "declining",
             sentiment_timeline |->
                 [i \in 1..Len(scores) |-> <<dates[i], scores[i]>>],
             highest_sentiment |-> Max(Range(scores)),
             lowest_sentiment |-> Min(Range(scores))]

\* Mutant of TrendReport: a record without overall_score counts as score 0
TrendReportMissingAsZero(ms, days) ==
    LET scores == [i \in 1..Len(ms) |->
                     IF HasScore(ms[i])
                     THEN Val(ms[i].sentiment_analysis).overall_score ELSE 0]
        dates  == [i \in 1..Len(ms) |-> ms[i].date.d]
    IN IF ms = <<>> THEN NoMeetingsResult
       ELSE [period_days |-> days,
             meetings_analyzed |-> Len(ms),
             average_sentiment |-> RoundDiv(SumSeq(scores) * 10, Len(scores)),
             trend |-> IF Len(scores) > 1 /\ scores[Len(scores)] > scores[1]
                       THEN "improving" ELSE "declining",
             sentiment_timeline |->
                 [i \in 1..Len(scores) |-> <<dates[i], scores[i]>>],
             highest_sentiment |-> Max(Range(scores)),
             lowest_sentiment |-> Min(Range(scores))]

\* Mutant of TrendReport: no test for an empty fetch, a report filled with zeros
TrendReportZeroFilled(ms, days) ==
    [period_days |-> days, meetings_analyzed |-> 0, average_sentiment |-> 0,
     trend |-> "declining", sentiment_timeline |-> <<>>,
     highest_sentiment |-> 0, lowest_sentiment |-> 0]

\* Body of get_team_sentiment_trends after the fetch (lines 270-297);
\* ms is the fetched list, scores are tenths, the average is in hundredths
TrendReport(ms, days) ==
    LET scored == SelectSeq(ms, HasScore)
        scores == [i \in 1..Len(scored) |->
                     Val(scored[i].sentiment_analysis).overall_score]
        dates  == [i \in 1..Len(scored) |-> scored[i].date.d]
    IN IF ms = <<>> THEN NoMeetingsResult
       ELSE IF scores = <<>> THEN NoSentimentResult
       ELSE [period_days |-> days,
             meetings_analyzed |-> Len(ms),
             average_sentiment |-> RoundDiv(SumSeq(scores) * 10, Len(scores)),
             trend |-> IF Len(scores) > 1 /\ scores[Len(scores)] > scores[1]
                       THEN "improving" ELSE "declining",
             sentiment_timeline |->
                 [i \in 1..Len(scores) |-> <<dates[i], scores[i]>>],
             highest_sentiment |-> Max(Range(scores)),
             lowest_sentiment |-> Min(Range(scores))]

\* get_team_sentiment_trends(days): the possible results
GetTeamSentimentTrends(table, available, clock, days) ==
    {TryExcept([exc |-> FALSE, val |-> TrendReport(f.val, days)],
               AnalysisFailedResult) :
       f \in GetMeetingsByDateRange(table, available,
                                    WindowStart(clock, days), WindowEnd(clock))}

\* Mutant of CountOf: an absent key counts as one item
CountOfAbsentAsOne(m, key) ==
    IF key \in DOMAIN Val(m.summary) THEN Len(Val(m.summary)[key]) ELSE 1

\* len(meeting.summary[key]) when the key is present, else nothing is added
CountOf(m, key) ==
    IF key \in DOMAIN Val(m.summary) THEN Len(Val(m.summary)[key]) ELSE 0

EffectivenessOf(m) ==
    IF "effectiveness_score" \in DOMAIN Val(m.coach_feedback)
    THEN Val(m.coach_feedback).effectiveness_score ELSE 0

\* `in` applied to a None document, or iteration over None participants
AggregationRaises(ms) ==
    \E i \in 1..Len(ms) :
        \/ IsNone(ms[i].summary)
        \/ IsNone(ms[i].coach_feedback)
        \/ IsNone(ms[i].participants)

\* All participants of all meetings, in iteration order
RECURSIVE Flatten(_)
Flatten(ms) ==
    IF ms = <<>> THEN <<>> ELSE Val(Head(ms).participants) \o Flatten(Tail(ms))

Count(q, x) == Cardinality({i \in 1..Len(q) : q[i] = x})

\* Keys of participant_frequency in insertion order (first appearance)
RECURSIVE FirstAppearance(_)
FirstAppearance(q) ==
    IF q = <<>> THEN <<>>
    ELSE LET rest == FirstAppearance(SubSeq(q, 1, Len(q) - 1))
             x == q[Len(q)]
         IN IF x \in Range(rest) THEN rest ELSE Append(rest, x)

\* sorted(items, key=count, reverse=True): stable, so equal counts keep
\* their insertion order
RECURSIVE SortByCountDesc(_, _)
SortByCountDesc(keys, all) ==
    IF keys = <<>> THEN <<>>
    ELSE LET best == Max({Count(all, keys[i]) : i \in 1..Len(keys)})
             k == Min({i \in 1..Len(keys) : Count(all, keys[i]) = best})
         IN <<<<keys[k], best>>>>
            \o SortByCountDesc(SubSeq(keys, 1, k - 1)
                               \o SubSeq(keys, k + 1, Len(keys)), all)

\* [:5] of most_active_participants
TopParticipants == 5

\* meeting_types: counts of the truthy meeting_type values
MeetingTypes(ms) ==
    LET typed == {i \in 1..Len(ms) :
                    ~IsNone(ms[i].meeting_type) /\ Val(ms[i].meeting_type) # ""}
        types == {Val(ms[i].meeting_type) : i \in typed}
    IN [t \in types |->
          Cardinality({i \in typed : Val(ms[i].meeting_type) = t})]

\* Mutant of Aggregates: the effectiveness sum is divided by the number of
\* records that carry effectiveness_score
AggregatesAverageOverScored(ms, clock, days) ==
    LET total == Len(ms)
        items == SumSeq([i \in 1..total |-> CountOf(ms[i], "action_items")])
        decisions == SumSeq([i \in 1..total |-> CountOf(ms[i], "decisions")])
        effectiveness == SumSeq([i \in 1..total |-> EffectivenessOf(ms[i])])
        carrying == Cardinality({i \in 1..total :
                      "effectiveness_score" \in DOMAIN Val(ms[i].coach_feedback)})
        everyone == Flatten(ms)
    IN [report_period |->
            <<WindowStart(clock, days).d, WindowEnd(clock).d>>,
        total_meetings |-> total,
        total_action_items |-> items,
        total_decisions |-> decisions,
        average_effectiveness_score |->
            IF carrying = 0 THEN 0 ELSE RoundDiv(effectiveness * 10, carrying),
        action_items_per_meeting |-> RoundDiv(items * 10, total),
        decisions_per_meeting |-> RoundDiv(decisions * 10, total),
        most_active_participants |->
            Limit(SortByCountDesc(FirstAppearance(everyone), everyone),
                  TopParticipants),
        meeting_types_distribution |-> MeetingTypes(ms)]

\* The report of generate_team_performance_report without its last entry
\* (lines 321-363); ms is the fetched, non-empty list.  Scores are tenths,
\* the average score is in hundredths, the per-meeting ratios in tenths.
Aggregates(ms, clock, days) ==
    LET total == Len(ms)
        items == SumSeq([i \in 1..total |-> CountOf(ms[i], "action_items")])
        decisions == SumSeq([i \in 1..total |-> CountOf(ms[i], "decisions")])
        effectiveness == SumSeq([i \in 1..total |-> EffectivenessOf(ms[i])])
        everyone == Flatten(ms)
    IN [report_period |->
            <<WindowStart(clock, days).d, WindowEnd(clock).d>>,
        total_meetings |-> total,
        total_action_items |-> items,
        total_decisions |-> decisions,
        average_effectiveness_score |-> RoundDiv(effectiveness * 10, total),
        action_items_per_meeting |-> RoundDiv(items * 10, total),
        decisions_per_meeting |-> RoundDiv(decisions * 10, total),
        most_active_participants |->
            Limit(SortByCountDesc(FirstAppearance(everyone), everyone),
                  TopParticipants),
        meeting_types_distribution |-> MeetingTypes(ms)]

\* Keys that only a populated report carries
TrendKeys ==
    {"period_days", "meetings_analyzed", "average_sentiment", "trend",
     "sentiment_timeline", "highest_sentiment", "lowest_sentiment"}
PerformanceKeys ==
    {"report_period", "total_meetings", "total_action_items",
     "total_decisions", "average_effectiveness_score",
     "action_items_per_meeting", "decisions_per_meeting",
     "most_active_participants", "meeting_types_distribution",
     "sentiment_trends"}

----------------------------------------------------------------------------
(* Inputs *)

AllCallers == {1, 2}

Ids == {"m1", "m2", "m3"}

\* Bounds of range queries
RangeStarts == {DateTime(1, 0), DateTime(2, 0)}
RangeEnds == {DateTime(2, 0), DateTime(2, 5)}

\* Readings of datetime.now() (whole part)
Clocks == {2, 3}

Limits == 0..MaxLimit

Queries == {"apple", "kp2"}

SummaryFull ==
    [key_points |-> <<[point |-> Some("kp1")]>>,
     action_items |-> <<[task |-> Some("t1"), assignee |-> Some("bob")]>>,
     decisions |-> <<[decision |-> Some("d1")]>>]

\* No action_items and no decisions; the second key point has no 'point' key
SummaryPartial == [key_points |-> <<[point |-> Some("kp2")], EmptyDict>>]

\* An unassigned action item: "assignee": null
SummaryNullAssignee ==
    [action_items |-> <<[task |-> Some("t2"), assignee |-> None]>>]

ScoreOf(id) == CASE id = "m1" -> 6 [] id = "m2" -> 5 [] OTHER -> 9

\* A record with every field given
FullRecord(id, date) ==
    MeetingRecord(id, Some("alpha"), date, Some(<<"ann", "bob">>),
                  Some("apple"), Some(SummaryFull),
                  Some([overall_score |-> ScoreOf(id)]),
                  Some([effectiveness_score |-> 8]),
                  Some(30), Some("standup"), Some(<<"x", "y">>))

\* A record with duration_minutes, meeting_type and tags left at their defaults
DefaultsRecord(id, date) ==
    MeetingRecordDefaults(id, Some("beta"), date, Some(<<"ann">>),
                          Some("banana"), Some(SummaryPartial),
                          Some(EmptyDict), Some(EmptyDict))

\* title is None: the INSERT into meetings fails its NOT NULL constraint
NoTitleRecord(id, date) ==
    MeetingRecord(id, None, date, Some(<<"ann">>), Some("cherry"),
                  Some(SummaryFull), Some(EmptyDict), Some(EmptyDict),
                  None, None, Some(<<>>))

\* The INSERT into meetings succeeds, then _extract_summary_text raises
NullAssigneeRecord(id, date) ==
    MeetingRecord(id, Some("gamma"), date, Some(<<"ann">>), Some("cherry"),
                  Some(SummaryNullAssignee), Some(EmptyDict), Some(EmptyDict),
                  None, None, Some(<<>>))

DayOf(id) == CASE id = "m1" -> 1 [] id = "m2" -> 2 [] OTHER -> 3

StoreInputs ==
    {FullRecord(id, DateTime(DayOf(id), 0)) : id \in Ids}
    \cup {FullRecord("m2", DateTime(2, 5))}
    \cup {DefaultsRecord("m1", DateTime(2, 0))}
    \cup {NoTitleRecord("m1", DateTime(1, 0)),
          NullAssigneeRecord("m1", DateTime(1, 0))}

----------------------------------------------------------------------------
(* Record factory *)

\* transcript[:100] takes this many characters
PrefixLength == 100

\* Mutant of TranscriptPrefix: the whole transcript is hashed
WholeTranscript(transcript) == transcript

\* transcript[:100]; a transcript is a sequence of characters
TranscriptPrefix(transcript) ==
    SubSeq(transcript, 1, Min({PrefixLength, Len(transcript)}))

\* hashlib.md5(content.encode()).hexdigest()[:12], as an uninterpreted function
\* of the hashed content (collisions of the truncated digest are not modelled)
Md5Hex12(content) == [md5_12 |-> content]

\* generate_meeting_id(transcript, date): the hashed content is the prefix
\* followed by date.isoformat()
GenerateMeetingId(transcript, date) ==
    Md5Hex12([prefix |-> TranscriptPrefix(transcript), date |-> IsoFormat(date)])

\* create_meeting_from_analysis(...) when datetime.now() reads `now`;
\* duration_minutes is not passed and keeps its default
CreateMeetingFromAnalysis(title, transcript, participants, summary, sentiment_analysis, coach_feedback, meeting_type, tags, now) ==
    MeetingRecord(GenerateMeetingId(transcript, now), title, now, participants,
                  Some(transcript), summary, sentiment_analysis,
                  coach_feedback, None, meeting_type, tags)

Repeat(ch, n) == [i \in 1..n |-> ch]

\* Two transcripts that agree on their first 100 characters, one that differs
\* at character 100, and a short one
Transcripts ==
    {Repeat("a", PrefixLength) \o <<"x">>,
     Repeat("a", PrefixLength) \o <<"y", "z">>,
     Repeat("a", PrefixLength - 1) \o <<"x">>,
     <<"h", "i">>}

BuildDates == {DateTime(2, 0), DateTime(2, 5)}

----------------------------------------------------------------------------
(* State machine *)

NoTx == [owner |-> 0]

Init ==
    /\ meetings = {}
    /\ fts = {}
    /\ tx = NoTx
    /\ pc = [c \in AllCallers |-> "idle"]
    /\ call = [c \in AllCallers |-> [op |-> "none"]]
    /\ returned = [c \in AllCallers |-> [of |-> "none", val |-> None]]
    /\ raised = [c \in AllCallers |-> FALSE]
    /\ local = [c \in AllCallers |-> None]
    /\ pre = [c \in AllCallers |-> <<{}, {}>>]
    /\ stored = [id \in Ids |-> None]
    /\ storeCount = [id \in Ids |-> 0]
    /\ dbAvailable = TRUE
    /\ active = {1}
    /\ unreleased = FALSE

\* Per caller: the value returned by the last finished operation
ret == [c \in AllCallers |-> returned[c].val]

\* The operation of caller c returns (or raises) `result`
Finish(c, op, result) ==
    /\ pc' = [pc EXCEPT ![c] = "idle"]
    /\ call' = [call EXCEPT ![c] = op]
    /\ returned' = [returned EXCEPT ![c] = [of |-> op.op, val |-> result.val]]
    /\ raised' = [raised EXCEPT ![c] = result.raised]

\* The operation of caller c goes on at position `next`
Continue(c, op, next) ==
    /\ pc' = [pc EXCEPT ![c] = next]
    /\ call' = [call EXCEPT ![c] = op]
    /\ returned' = [returned EXCEPT ![c] = [of |-> "pending", val |-> None]]
    /\ raised' = [raised EXCEPT ![c] = FALSE]

\* `with sqlite3.connect(self.db_path) as conn:` ends by committing or rolling
\* back; nothing calls conn.close().  A call that returns after it connected
\* leaves its connection open, until the interpreter reclaims the object.
Returned(connected) == unreleased' = (unreleased \/ connected)

Failed == [exc |-> TRUE, val |-> FALSE]
Succeeded(v) == [exc |-> FALSE, val |-> v]

\* store_meeting, lines 97-127: connect, serialise, INSERT OR REPLACE INTO
\* meetings.  The first write statement opens the transaction.
StoreInsert(c, r) ==
    /\ c \in active /\ pc[c] = "idle" /\ tx = NoTx
    /\ NextRowid(fts) <= MaxStores
    /\ pre' = [pre EXCEPT ![c] = <<meetings, fts>>]
    /\ LET op == [op |-> "store", rec |-> r]
           row == ToRow(r, NextRowid(meetings))
       IN IF ~dbAvailable \/ NotNullViolated(row)
          THEN /\ Finish(c, op, TryExcept(Failed, FALSE))
               /\ Returned(dbAvailable)
               /\ UNCHANGED tx
          ELSE /\ Continue(c, op, "store_fts")
               /\ tx' = [owner |-> c,
                         meetings |-> InsertOrReplace(meetings, row),
                         fts |-> fts, rowcount |-> 1]
               /\ UNCHANGED unreleased
    /\ UNCHANGED <<meetings, fts, local, stored, storeCount, dbAvailable, active>>

\* Mutant of StoreUpdateFts: the exception is handled without leaving the
\* transaction, so the row already inserted is committed without an entry
StoreUpdateFtsNoRollback(c) ==
    /\ pc[c] = "store_fts" /\ tx.owner = c
    /\ IF ExtractRaises(call[c].rec.summary)
       THEN /\ Finish(c, call[c], TryExcept(Failed, FALSE))
            /\ meetings' = tx.meetings
            /\ tx' = NoTx
            /\ Returned(TRUE)
       ELSE /\ Continue(c, call[c], "store_commit")
            /\ tx' = [tx EXCEPT !.fts = FtsInsert(tx.fts, call[c].rec)]
            /\ UNCHANGED <<meetings, unreleased>>
    /\ UNCHANGED <<fts, local, pre, stored, storeCount, dbAvailable, active>>

\* store_meeting, lines 129-141: build the summary text, INSERT OR REPLACE INTO
\* meetings_fts.  An exception leaves the `with` block, which rolls back.
StoreUpdateFts(c) ==
    /\ pc[c] = "store_fts" /\ tx.owner = c
    /\ IF ExtractRaises(call[c].rec.summary)
       THEN /\ Finish(c, call[c], TryExcept(Failed, FALSE))
            /\ tx' = NoTx
            /\ Returned(TRUE)
       ELSE /\ Continue(c, call[c], "store_commit")
            /\ tx' = [tx EXCEPT !.fts = FtsInsert(tx.fts, call[c].rec)]
            /\ UNCHANGED unreleased
    /\ UNCHANGED <<meetings, fts, local, pre, stored, storeCount, dbAvailable, active>>

\* store_meeting, lines 143-144: conn.commit(); return True
StoreCommit(c) ==
    /\ pc[c] = "store_commit" /\ tx.owner = c
    /\ meetings' = tx.meetings
    /\ fts' = tx.fts
    /\ tx' = NoTx
    /\ stored' = [stored EXCEPT ![call[c].rec.id] = Some(call[c].rec)]
    /\ storeCount' = [storeCount EXCEPT ![call[c].rec.id] = @ + 1]
    /\ Finish(c, call[c], TryExcept(Succeeded(TRUE), FALSE))
    /\ Returned(TRUE)
    /\ UNCHANGED <<local, pre, dbAvailable, active>>

\* DELETE FROM meetings_fts WHERE id = ?, when the index columns can be read:
\* the scan reads the id of each entry from its content row
FtsDelete(index, table, id) ==
    {e \in index :
       ~\E row \in table : row.rowid = e.rowid /\ row.id = id}

\* delete_meeting, lines 381-384: connect, DELETE FROM meetings WHERE id = ?
DeleteRow(c, id) ==
    /\ c \in active /\ pc[c] = "idle" /\ tx = NoTx
    /\ pre' = [pre EXCEPT ![c] = <<meetings, fts>>]
    /\ LET op == [op |-> "delete", id |-> id]
           kept == {row \in meetings : row.id # id}
       IN IF ~dbAvailable
          THEN /\ Finish(c, op, TryExcept(Failed, FALSE))
               /\ UNCHANGED tx
          ELSE /\ Continue(c, op, "delete_fts")
               /\ tx' = [owner |-> c, meetings |-> kept, fts |-> fts,
                         rowcount |-> Cardinality(meetings \ kept)]
    /\ UNCHANGED <<meetings, fts, local, stored, storeCount, dbAvailable, active, unreleased>>

\* delete_meeting, lines 385-391: DELETE FROM meetings_fts WHERE id = ?,
\* conn.commit(), return cursor.rowcount > 0 (the rowcount of the last
\* statement executed).  An exception rolls the transaction back.
DeleteFts(c) ==
    /\ pc[c] = "delete_fts" /\ tx.owner = c
    /\ LET kept == FtsDelete(tx.fts, tx.meetings, call[c].id)
           rowcount == Cardinality(tx.fts \ kept)
       IN IF FtsContentReadable
          THEN /\ meetings' = tx.meetings
               /\ fts' = kept
               /\ stored' = [stored EXCEPT ![call[c].id] = None]
               /\ storeCount' = [storeCount EXCEPT ![call[c].id] = 0]
               /\ Finish(c, call[c], TryExcept(Succeeded(rowcount > 0), FALSE))
          ELSE /\ UNCHANGED <<meetings, fts, stored, storeCount>>
               /\ Finish(c, call[c], TryExcept(Failed, FALSE))
    /\ tx' = NoTx
    /\ Returned(TRUE)
    /\ UNCHANGED <<local, pre, dbAvailable, active>>

\* A read-only operation that completes in one statement
ReadOp(c, op, result) ==
    /\ c \in active /\ pc[c] = "idle"
    /\ Finish(c, op, result)
    /\ pre' = [pre EXCEPT ![c] = <<meetings, fts>>]
    /\ Returned(dbAvailable)
    /\ UNCHANGED <<meetings, fts, tx, local, stored, storeCount, dbAvailable, active>>

Get(c, id) ==
    ReadOp(c, [op |-> "get", id |-> id], GetMeeting(meetings, dbAvailable, id))

Recent(c, limit) ==
    \E result \in GetRecentMeetings(meetings, dbAvailable, limit) :
        ReadOp(c, [op |-> "recent", limit |-> limit], result)

Search(c, query, limit) ==
    \E result \in SearchMeetings(meetings, fts, dbAvailable, query, limit) :
        ReadOp(c, [op |-> "search", query |-> query, limit |-> limit], result)

ByDateRange(c, start, end) ==
    \E result \in GetMeetingsByDateRange(meetings, dbAvailable, start, end) :
        ReadOp(c, [op |-> "range", start |-> start, end |-> end], result)

SentimentTrend(c, days, now) ==
    \E result \in GetTeamSentimentTrends(meetings, dbAvailable, now, days) :
        ReadOp(c, [op |-> "trend", days |-> days, clock |-> now], result)

\* generate_team_performance_report, lines 313-363: first clock reading and
\* fetch, the aggregates
PerformanceAggregate(c, days, now) ==
    /\ c \in active /\ pc[c] = "idle"
    /\ pre' = [pre EXCEPT ![c] = <<meetings, fts>>]
    /\ \E f \in GetMeetingsByDateRange(meetings, dbAvailable,
                                       WindowStart(now, days), WindowEnd(now)) :
         LET op == [op |-> "performance", days |-> days, clock |-> now]
         IN IF f.val = <<>>
            THEN /\ Finish(c, op, TryExcept(Succeeded(NoMeetingsResult),
                                            ReportFailedResult))
                 /\ UNCHANGED local
            ELSE IF AggregationRaises(f.val)
            THEN /\ Finish(c, op, TryExcept([exc |-> TRUE,
                                             val |-> ReportFailedResult],
                                            ReportFailedResult))
                 /\ UNCHANGED local
            ELSE /\ Continue(c, op, "performance_trend")
                 /\ local' = [local EXCEPT
                                ![c] = Some(Aggregates(f.val, now, days))]
    /\ Returned(dbAvailable)
    /\ UNCHANGED <<meetings, fts, tx, stored, storeCount, dbAvailable, active>>

\* generate_team_performance_report, line 364: the nested call
\* self.get_team_sentiment_trends(days), with its own clock reading and fetch
PerformanceTrend(c, now) ==
    /\ pc[c] = "performance_trend"
    /\ now >= call[c].clock
    /\ \E t \in GetTeamSentimentTrends(meetings, dbAvailable, now,
                                       call[c].days) :
         Finish(c, call[c],
                TryExcept(Succeeded(Val(local[c])
                                    @@ ("sentiment_trends" :> t.val)),
                          ReportFailedResult))
    /\ local' = [local EXCEPT ![c] = None]
    /\ Returned(dbAvailable)
    /\ UNCHANGED <<meetings, fts, tx, pre, stored, storeCount, dbAvailable, active>>

Next ==
    \/ \E c \in AllCallers, r \in StoreInputs : StoreInsert(c, r)
    \/ \E c \in AllCallers : StoreUpdateFts(c)
    \/ \E c \in AllCallers : StoreCommit(c)
    \/ \E c \in AllCallers, id \in Ids : DeleteRow(c, id)
    \/ \E c \in AllCallers : DeleteFts(c)
    \/ \E c \in AllCallers, id \in Ids : Get(c, id)
    \/ \E c \in AllCallers, limit \in Limits : Recent(c, limit)
    \/ \E c \in AllCallers, q \in Queries : Search(c, q, MaxLimit)
    \/ \E c \in AllCallers, start \in RangeStarts, end \in RangeEnds :
          ByDateRange(c, start, end)
    \/ \E c \in AllCallers, days \in 0..MaxDays, now \in Clocks :
          SentimentTrend(c, days, now)
    \/ \E c \in AllCallers, days \in 0..MaxDays, now \in Clocks :
          PerformanceAggregate(c, days, now)
    \/ \E c \in AllCallers, now \in Clocks : PerformanceTrend(c, now)

Spec == Init /\ [][Next]_vars

----------------------------------------------------------------------------
(* The record factory next to the store *)

\* An operation that touches no database
PureOp(c, op, result) ==
    /\ c \in active /\ pc[c] = "idle"
    /\ Finish(c, op, Succeeded(result) @@ [raised |-> FALSE])
    /\ pre' = [pre EXCEPT ![c] = <<meetings, fts>>]
    /\ UNCHANGED <<meetings, fts, tx, local, stored, storeCount, dbAvailable, active, unreleased>>

\* MeetingHistoryManager.generate_meeting_id(transcript, date)
DeriveId(c, transcript, date) ==
    PureOp(c, [op |-> "derive_id", transcript |-> transcript, date |-> date],
           GenerateMeetingId(transcript, date))

\* create_meeting_from_analysis(title, transcript, participants, summary,
\* sentiment_analysis, coach_feedback[, meeting_type][, tags])
Build(c, transcript, meeting_type, tags, now) ==
    PureOp(c, [op |-> "build", transcript |-> transcript,
               meeting_type |-> meeting_type, tags |-> tags],
           CreateMeetingFromAnalysis(Some("alpha"), transcript,
                                     Some(<<"ann">>), Some(SummaryFull),
                                     Some(EmptyDict), Some(EmptyDict),
                                     meeting_type, tags, now))

NextFactory ==
    \/ \E c \in AllCallers, r \in StoreInputs : StoreInsert(c, r)
    \/ \E c \in AllCallers : StoreUpdateFts(c)
    \/ \E c \in AllCallers : StoreCommit(c)
    \/ \E c \in AllCallers, t \in Transcripts, d \in BuildDates :
          DeriveId(c, t, d)
    \/ \E c \in AllCallers, t \in Transcripts, d \in BuildDates,
          args \in {<<None, None>>, <<Some("standup"), Some(<<"x">>)>>} :
          Build(c, t, args[1], args[2], d)

SpecFactory == Init /\ [][NextFactory]_vars

----------------------------------------------------------------------------
(* Records with an empty title or null documents handed to the store *)

\* MeetingRecord(..., title='', ...)
EmptyTitleRecord(id, date) ==
    MeetingRecord(id, Some(""), date, Some(<<"ann">>), Some("cherry"),
                  Some(SummaryFull), Some(EmptyDict), Some(EmptyDict),
                  None, None, Some(<<>>))

\* MeetingRecord(..., participants=None, sentiment_analysis=None,
\* coach_feedback=None)
NullDocumentsRecord(id, date) ==
    MeetingRecord(id, Some("delta"), date, None, Some("cherry"),
                  Some(SummaryFull), None, None, None, None, Some(<<>>))

\* MeetingRecord(..., summary=None): _extract_summary_text raises on it
NullSummaryRecord(id, date) ==
    MeetingRecord(id, Some("delta"), date, Some(<<"ann">>), Some("cherry"),
                  None, Some(EmptyDict), Some(EmptyDict), None, None,
                  Some(<<>>))

UnvalidatedInputs ==
    {EmptyTitleRecord("m3", DateTime(3, 0)),
     NullDocumentsRecord("m2", DateTime(2, 0)),
     NullSummaryRecord("m1", DateTime(1, 0))}

NextUnvalidated ==
    \/ \E c \in AllCallers, r \in StoreInputs \cup UnvalidatedInputs :
          StoreInsert(c, r)
    \/ \E c \in AllCallers : StoreUpdateFts(c)
    \/ \E c \in AllCallers : StoreCommit(c)
    \/ \E c \in AllCallers, id \in Ids : Get(c, id)

SpecUnvalidated == Init /\ [][NextUnvalidated]_vars

----------------------------------------------------------------------------
(* Two callers sharing one database file *)

InitRace ==
    /\ meetings = {}
    /\ fts = {}
    /\ tx = NoTx
    /\ pc = [c \in AllCallers |-> "idle"]
    /\ call = [c \in AllCallers |-> [op |-> "none"]]
    /\ returned = [c \in AllCallers |-> [of |-> "none", val |-> None]]
    /\ raised = [c \in AllCallers |-> FALSE]
    /\ local = [c \in AllCallers |-> None]
    /\ pre = [c \in AllCallers |-> <<{}, {}>>]
    /\ stored = [id \in Ids |-> None]
    /\ storeCount = [id \in Ids |-> 0]
    /\ dbAvailable = TRUE
    /\ active = AllCallers
    /\ unreleased = FALSE

\* store_meeting while another connection holds the write lock for longer
\* than the busy timeout of sqlite3.connect: the INSERT raises "database is
\* locked" and the method returns False
StoreLocked(c, r) ==
    /\ c \in active /\ pc[c] = "idle"
    /\ tx # NoTx /\ tx.owner # c
    /\ dbAvailable
    /\ pre' = [pre EXCEPT ![c] = <<meetings, fts>>]
    /\ Finish(c, [op |-> "store", rec |-> r], TryExcept(Failed, FALSE))
    /\ Returned(TRUE)
    /\ UNCHANGED <<meetings, fts, tx, local, stored, storeCount, dbAvailable, active>>

RaceInputs ==
    {FullRecord("m1", DateTime(1, 0)), DefaultsRecord("m1", DateTime(2, 0)),
     FullRecord("m2", DateTime(2, 0))}

NextRace ==
    \/ \E c \in AllCallers, r \in RaceInputs : StoreInsert(c, r)
    \/ \E c \in AllCallers, r \in RaceInputs : StoreLocked(c, r)
    \/ \E c \in AllCallers : StoreUpdateFts(c)
    \/ \E c \in AllCallers : StoreCommit(c)
    \/ \E c \in AllCallers, now \in Clocks : PerformanceAggregate(c, 1, now)
    \/ \E c \in AllCallers, now \in Clocks : PerformanceTrend(c, now)

SpecRace == InitRace /\ [][NextRace]_vars

----------------------------------------------------------------------------
(* Storage faults: the database file becomes unusable or is damaged from   *)
(* outside the program                                                     *)

\* sqlite3.connect(self.db_path) starts to fail ("unable to open database file")
DatastoreFails ==
    /\ dbAvailable
    /\ dbAvailable' = FALSE
    /\ UNCHANGED <<meetings, fts, tx, pc, call, returned, raised, local, pre,
                   stored, storeCount, active, unreleased>>

DatastoreRecovers ==
    /\ ~dbAvailable
    /\ dbAvailable' = TRUE
    /\ UNCHANGED <<meetings, fts, tx, pc, call, returned, raised, local, pre,
                   stored, storeCount, active, unreleased>>

\* The date text or the summary JSON of one stored row becomes unparsable
\* (at most one damaged row at a time)
DamageRow(id, column) ==
    /\ tx = NoTx
    /\ \A row \in meetings : RowParses(row)
    /\ \E row \in meetings :
         /\ row.id = id
         /\ meetings' = (meetings \ {row}) \cup
                {IF column = "date"
                 THEN [row EXCEPT !.date = Some(BadDateText)]
                 ELSE [row EXCEPT !.summary = Some(BadJson)]}
    /\ UNCHANGED <<fts, tx, pc, call, returned, raised, local, pre, stored,
                   storeCount, dbAvailable, active, unreleased>>

NextFaults ==
    \/ Next
    \/ DatastoreFails
    \/ DatastoreRecovers
    \/ \E id \in Ids, column \in {"date", "summary"} : DamageRow(id, column)

SpecFaults == Init /\ [][NextFaults]_vars

----------------------------------------------------------------------------
(* Connection lifetime: no operation closes its connection; the interpreter *)
(* closes a connection when it reclaims the unreferenced object, at a time  *)
(* the program does not choose                                              *)

Collect ==
    /\ unreleased
    /\ unreleased' = FALSE
    /\ UNCHANGED <<meetings, fts, tx, pc, call, returned, raised, local, pre,
                   stored, storeCount, dbAvailable, active>>

NextGC ==
    \/ Next
    \/ Collect

SpecGC == Init /\ [][NextGC]_vars

----------------------------------------------------------------------------
(* Properties *)

RowsOf(id) == {row \in meetings : row.id = id}
EntriesOf(id) == {e \in fts : e.id = id}
Idle(c, op) == pc[c] = "idle" /\ call[c].op = op

\* C1 (round trip): a get(id) that follows a successful store(r) with r.id = id,
\* with no later write of that id, returns a record equal to r in every field,
\* also when r leaves tags, meeting_type and duration_minutes at their defaults.
C1_RoundTrip ==
    \A c \in AllCallers :
        (Idle(c, "get") /\ ~IsNone(stored[call[c].id]))
            => ret[c] = stored[call[c].id]

\* C2 (overwrite): once an id has been stored twice with result True, the
\* primary table holds exactly one row for the id and the index exactly one
\* entry for it, both carrying the values of the second record.
C2_Overwrite ==
    \A id \in Ids :
        storeCount[id] >= 2 =>
            LET r == Val(stored[id])
            IN /\ Cardinality(RowsOf(id)) = 1
               /\ \A row \in RowsOf(id) : row = ToRow(r, row.rowid)
               /\ Cardinality(EntriesOf(id)) = 1
               /\ \A e \in EntriesOf(id) : e = ToFtsEntry(r, e.rowid)

\* The record named by the last delete call of caller c was stored when the
\* call started
DeletedStored(c) ==
    Idle(c, "delete") /\ \E row \in pre[c][1] : row.id = call[c].id

C4_DeleteResult ==
    \A c \in AllCallers :
        Idle(c, "delete") =>
            /\ (ret[c] = TRUE) <=> DeletedStored(c)
            /\ (ret[c] = TRUE) =>
                 (RowsOf(call[c].id) = {} /\ EntriesOf(call[c].id) = {})
            /\ ~DeletedStored(c) => <<meetings, fts>> = pre[c]

\* C5 (index lockstep): the ids with an index entry are the ids with a primary
\* row, no id has two entries, and each entry is the projection of the row
\* stored under its id.
C5_IndexLockstep ==
    /\ {e.id : e \in fts} = {row.id : row \in meetings}
    /\ \A id \in Ids : Cardinality(EntriesOf(id)) <= 1
    /\ \A e \in fts : \A row \in RowsOf(e.id) :
         /\ e.title = row.title
         /\ e.transcript = row.transcript
         /\ e.summary_text = ExtractSummaryText(JsonLoads(Val(row.summary)))
         /\ e.tags = Val(JsonLoads(Val(row.tags)))

\* C6 (store is one unit of work): a store that returned false left the
\* primary table and the index as they were when it was called, and the
\* committed table never holds a row whose index entry is missing.
C6_StoreUnitOfWork ==
    /\ \A c \in AllCallers :
         (Idle(c, "store") /\ ret[c] = FALSE) => <<meetings, fts>> = pre[c]
    /\ \A row \in meetings :
         \E e \in fts : e.rowid = row.rowid /\ e.id = row.id

\* A store over an existing row failed after its INSERT into meetings ran
C6_Witness ==
    \E c \in AllCallers :
        /\ Idle(c, "store") /\ ret[c] = FALSE
        /\ ~NotNullViolated(ToRow(call[c].rec, 1))
        /\ RowsOf(call[c].rec.id) # {}

\* Shape of the value each operation returns
ResultShape(c) ==
    CASE call[c].op \in {"store", "delete"} -> ret[c] \in BOOLEAN
      [] call[c].op = "get" -> IsNone(ret[c]) \/ Len(ret[c]) = 1
      [] call[c].op \in {"recent", "search", "range"} ->
             DOMAIN ret[c] = 1..Len(ret[c])
      [] call[c].op = "trend" ->
             DOMAIN ret[c] = {"error"} \/ DOMAIN ret[c] = TrendKeys
      [] call[c].op = "performance" ->
             DOMAIN ret[c] = {"error"} \/ DOMAIN ret[c] = PerformanceKeys
      [] OTHER -> TRUE

ReadOps == {"get", "recent", "search", "range", "trend", "performance"}

\* Caller c takes a step of a read operation
ReadStep(c) ==
    /\ call'[c].op \in ReadOps
    /\ <<pc[c], call[c], ret[c]>> # <<pc'[c], call'[c], ret'[c]>>

DateLeq(a, b) == a.d < b.d \/ (a.d = b.d /\ a.us <= b.us)

StoredRecords == {RowToMeetingRecord(row) : row \in meetings}

\* out lists distinct stored records, latest first
LatestFirst(out) ==
    /\ \A i \in 1..Len(out) : out[i] \in StoredRecords
    /\ \A i, j \in 1..Len(out) :
         i < j => (out[i].id # out[j].id /\ DateLeq(out[j].date, out[i].date))

\* C8 (recency ordering): recent(limit) with limit >= 0 returns exactly
\* min(limit, number of stored records) records, in non-increasing date order,
\* and no stored record left out is later than a returned one.
C8_RecencyOrdering ==
    \A c \in AllCallers :
        (Idle(c, "recent") /\ call[c].limit >= 0) =>
            LET out == ret[c]
            IN /\ Len(out) = Min({call[c].limit, Cardinality(meetings)})
               /\ LatestFirst(out)
               /\ \A r \in StoredRecords :
                    (\A i \in 1..Len(out) : out[i].id # r.id) =>
                        \A i \in 1..Len(out) : DateLeq(r.date, out[i].date)

\* Three records with dates D1 > D2 > D3 are stored and recent(2) returned
\* the records dated D1 and D2, in that order
C8_Witness ==
    \E c \in AllCallers :
        /\ Idle(c, "recent") /\ call[c].limit = 2
        /\ Cardinality({r.date : r \in StoredRecords}) = 3
        /\ Len(ret[c]) = 2
        /\ \E r \in StoredRecords :
             /\ ~DateLeq(ret[c][2].date, r.date)
             /\ ~DateLeq(ret[c][1].date, ret[c][2].date)

InRange(r, start, end) == DateLeq(start, r.date) /\ DateLeq(r.date, end)

\* C9 (date-range inclusivity): byDateRange(start, end) returns exactly the
\* stored records r with start <= r.date <= end, latest first.
C9_DateRangeInclusive ==
    \A c \in AllCallers :
        Idle(c, "range") =>
            LET out == ret[c]
            IN /\ LatestFirst(out)
               /\ {out[i] : i \in 1..Len(out)} =
                    {r \in StoredRecords :
                       InRange(r, call[c].start, call[c].end)}

\* A range query returned a record dated exactly start and another dated
\* exactly end, and left out a stored record dated after end
C9_Witness ==
    \E c \in AllCallers :
        /\ Idle(c, "range")
        /\ call[c].start # call[c].end
        /\ \E i, j \in 1..Len(ret[c]) :
             ret[c][i].date = call[c].start /\ ret[c][j].date = call[c].end
        /\ \E r \in StoredRecords : ~DateLeq(r.date, call[c].end)

\* No stored record is dated inside the window of the report caller c asked for
EmptyWindow(c) ==
    \A r \in StoredRecords :
        ~InRange(r, WindowStart(call[c].clock, call[c].days),
                 WindowEnd(call[c].clock))

\* C10 (empty-window analytics): when no stored record is dated in
\* [now - days, now], sentimentTrend and performanceReport return the explicit
\* no-data result: no exception, and none of the keys of a populated report.
C10_EmptyWindow ==
    \A c \in AllCallers :
        ((Idle(c, "trend") \/ Idle(c, "performance")) /\ EmptyWindow(c)) =>
            /\ ~raised[c]
            /\ ret[c] = NoMeetingsResult
            /\ DOMAIN ret[c] \cap (TrendKeys \cup PerformanceKeys) = {}

\* A performance report was asked for a window that holds no record although
\* records are stored
C10_Witness ==
    \E c \in AllCallers :
        /\ Idle(c, "performance")
        /\ EmptyWindow(c)
        /\ meetings # {}

\* The stored records dated inside the window of the report caller c asked for
WindowRecords(c) ==
    {r \in StoredRecords :
       InRange(r, WindowStart(call[c].clock, call[c].days),
               WindowEnd(call[c].clock))}

ScoredRecords(c) == {r \in WindowRecords(c) : HasScore(r)}

ScoreOfRecord(r) == Val(r.sentiment_analysis).overall_score

\* Caller c holds a populated sentiment trend report
PopulatedTrend(c) == Idle(c, "trend") /\ DOMAIN ret[c] = TrendKeys

\* C11 (trend direction): in a populated trend report, trend is "improving"
\* exactly when at least two records carry a score and the last-fetched score
\* (earliest date) is strictly greater than the first-fetched one (latest
\* date), else "declining"; records dated on days 1, 2, 3 with scores 0.6,
\* 0.5, 0.9 give average 0.67, highest 0.9, lowest 0.5 and "declining".
C11_TrendDirection ==
    \A c \in AllCallers :
        PopulatedTrend(c) =>
            LET tl == ret[c].sentiment_timeline
                n == Len(tl)
                scored == ScoredRecords(c)
                earliest == CHOOSE r \in scored :
                               \A o \in scored : DateLeq(r.date, o.date)
                latest == CHOOSE r \in scored :
                               \A o \in scored : DateLeq(o.date, r.date)
            IN /\ ret[c].trend \in {"improving", "declining"}
               /\ (ret[c].trend = "improving") <=> (n >= 2 /\ tl[n][2] > tl[1][2])
               /\ \A i, j \in 1..n : i < j => tl[j][1] <= tl[i][1]
               /\ Cardinality({r.date : r \in scored}) = Cardinality(scored) =>
                    ((ret[c].trend = "improving") <=>
                        (Cardinality(scored) >= 2
                           /\ ScoreOfRecord(earliest) > ScoreOfRecord(latest)))
               /\ {<<r.date.d, ScoreOfRecord(r)>> : r \in scored}
                     = {<<1, 6>>, <<2, 5>>, <<3, 9>>} =>
                    /\ ret[c].average_sentiment = 67
                    /\ ret[c].highest_sentiment = 9
                    /\ ret[c].lowest_sentiment = 5
                    /\ ret[c].trend = "declining"

\* The report over the three records of the example: fetched as (day 3, 0.9),
\* (day 2, 0.5), (day 1, 0.6)
C11_Witness ==
    \E c \in AllCallers :
        /\ PopulatedTrend(c)
        /\ ret[c].sentiment_timeline = <<<<3, 9>>, <<2, 5>>, <<1, 6>>>>
        /\ ret[c].trend = "declining"

\* Number of entries under `key` in the summaries of the records of S,
\* an absent key counting as none
RECURSIVE TotalUnder(_, _)
TotalUnder(S, key) ==
    IF S = {} THEN 0
    ELSE LET r == CHOOSE x \in S : TRUE
             n == IF key \in DOMAIN Val(r.summary)
                  THEN Len(Val(r.summary)[key]) ELSE 0
         IN n + TotalUnder(S \ {r}, key)

\* Caller c holds a populated performance report
PopulatedPerformance(c) ==
    Idle(c, "performance") /\ DOMAIN ret[c] = PerformanceKeys

\* C12 (missing-field tolerance): a performance report over a non-empty window
\* is not an error result; total_meetings counts every record of the window,
\* total_action_items and total_decisions are the sums of the lengths of
\* summary.action_items and summary.decisions, an absent key contributing 0.
C12_MissingFieldTolerance ==
    \A c \in AllCallers :
        (Idle(c, "performance") /\ WindowRecords(c) # {}) =>
            /\ PopulatedPerformance(c)
            /\ ret[c].total_meetings = Cardinality(WindowRecords(c))
            /\ ret[c].total_action_items =
                 TotalUnder(WindowRecords(c), "action_items")
            /\ ret[c].total_decisions =
                 TotalUnder(WindowRecords(c), "decisions")

\* A report over two records, one of which has neither action_items nor
\* decisions in its summary
C12_Witness ==
    \E c \in AllCallers :
        /\ PopulatedPerformance(c)
        /\ \E r \in WindowRecords(c) :
             DOMAIN Val(r.summary) \cap {"action_items", "decisions"} = {}
        /\ ret[c].total_meetings = 2
        /\ ret[c].total_action_items = 1
        /\ ret[c].total_decisions = 1

\* Transcripts t and u have the same first 100 characters
AgreeOnPrefix(t, u) ==
    \A i \in 1..PrefixLength :
        /\ (i <= Len(t)) <=> (i <= Len(u))
        /\ i <= Len(t) => t[i] = u[i]

\* C13 (id derivation): the id returned by deriveId(transcript, date) is the id
\* of every transcript that agrees with it on the first 100 characters, for
\* the same date, whatever follows character 100; the call leaves the primary
\* table and the index as they were.
C13_IdDerivation ==
    \A c \in AllCallers :
        Idle(c, "derive_id") =>
            /\ \A t \in Transcripts :
                 AgreeOnPrefix(t, call[c].transcript) =>
                     GenerateMeetingId(t, call[c].date) = ret[c]
            /\ <<meetings, fts>> = pre[c]

\* deriveId was called, with records stored, on a transcript that another
\* transcript agrees with on 100 characters and differs from afterwards
C13_Witness ==
    \E c \in AllCallers :
        /\ Idle(c, "derive_id")
        /\ meetings # {}
        /\ \E t \in Transcripts :
             /\ t # call[c].transcript
             /\ AgreeOnPrefix(t, call[c].transcript)

\* C14 (record factory defaults): build without type and tags returns a record
\* whose tags is the empty sequence and whose meeting_type is absent, whose id
\* is deriveId(transcript, record.date), and the call changes nothing in the
\* store.
C14_FactoryDefaults ==
    \A c \in AllCallers :
        (Idle(c, "build") /\ IsNone(call[c].meeting_type)
                          /\ IsNone(call[c].tags)) =>
            /\ ret[c].tags = Some(<<>>)
            /\ IsNone(ret[c].meeting_type)
            /\ ret[c].id = GenerateMeetingId(call[c].transcript, ret[c].date)
            /\ <<meetings, fts>> = pre[c]

\* C15 (record validation): no row of the primary table has an empty title,
\* a null participants list, or a null summary, sentiment_analysis or
\* coach_feedback document, whatever records were constructed and stored.
C15_RecordValidation ==
    \A row \in meetings :
        /\ row.title # Some("")
        /\ \A column \in {"participants", "summary", "sentiment_analysis",
                          "coach_feedback"} :
             ~IsNone(JsonLoads(Val(row[column])))

\* Sum of the overall scores of the records of S
RECURSIVE SumScores(_)
SumScores(S) ==
    IF S = {} THEN 0
    ELSE LET r == CHOOSE x \in S : TRUE
         IN ScoreOfRecord(r) + SumScores(S \ {r})

\* C16 (sentiment score selection): over a non-empty window, sentimentTrend
\* uses only the records that carry overall_score: the timeline has one
\* (date, score) entry per such record, latest first, and average, highest and
\* lowest are taken over those records alone; when no record carries the key
\* the result is the "no sentiment data" result, not the "no records" one.
C16_ScoreSelection ==
    \A c \in AllCallers :
        (Idle(c, "trend") /\ WindowRecords(c) # {}) =>
            LET scored == ScoredRecords(c)
                tl == ret[c].sentiment_timeline
            IN IF scored = {}
               THEN ret[c] = NoSentimentResult /\ ret[c] # NoMeetingsResult
               ELSE /\ PopulatedTrend(c)
                    /\ Len(tl) = Cardinality(scored)
                    /\ {tl[i] : i \in 1..Len(tl)} =
                         {<<r.date.d, ScoreOfRecord(r)>> : r \in scored}
                    /\ \A i, j \in 1..Len(tl) : i < j => tl[j][1] <= tl[i][1]
                    /\ ret[c].average_sentiment =
                         RoundDiv(SumScores(scored) * 10, Cardinality(scored))
                    /\ ret[c].highest_sentiment =
                         Max({ScoreOfRecord(r) : r \in scored})
                    /\ ret[c].lowest_sentiment =
                         Min({ScoreOfRecord(r) : r \in scored})

\* A populated trend report over a window that also holds a record without
\* overall_score
C16_Witness ==
    \E c \in AllCallers :
        /\ PopulatedTrend(c)
        /\ ScoredRecords(c) # WindowRecords(c)
        /\ Len(ret[c].sentiment_timeline) < ret[c].meetings_analyzed

HasEffectiveness(r) == "effectiveness_score" \in DOMAIN Val(r.coach_feedback)

\* Sum of coach_feedback.effectiveness_score over the records of S that
\* carry it
RECURSIVE SumEffectiveness(_)
SumEffectiveness(S) ==
    IF S = {} THEN 0
    ELSE LET r == CHOOSE x \in S : TRUE
             n == IF HasEffectiveness(r)
                  THEN Val(r.coach_feedback).effectiveness_score ELSE 0
         IN n + SumEffectiveness(S \ {r})

\* C17 (effectiveness averaging): in a populated performance report,
\* average_effectiveness_score is the sum of the effectiveness scores of the
\* records that carry one, divided by the number of all records in the window
\* and rounded to 2 decimals.
C17_EffectivenessAverage ==
    \A c \in AllCallers :
        PopulatedPerformance(c) =>
            /\ ret[c].total_meetings = Cardinality(WindowRecords(c))
            /\ ret[c].average_effectiveness_score =
                 RoundDiv(SumEffectiveness(WindowRecords(c)) * 10,
                          Cardinality(WindowRecords(c)))

\* Two records in the window, one of them with effectiveness_score 0.8: the
\* reported average is 0.40
C17_Witness ==
    \E c \in AllCallers :
        /\ PopulatedPerformance(c)
        /\ Cardinality(WindowRecords(c)) = 2
        /\ Cardinality({r \in WindowRecords(c) : HasEffectiveness(r)}) = 1
        /\ ret[c].average_effectiveness_score = 40

\* Callers c1 and c2 have each finished a store of a record with this id, both
\* with result True, and these are the only two stores of the id
BothStored(c1, c2, id) ==
    /\ c1 # c2
    /\ Idle(c1, "store") /\ ret[c1] = TRUE /\ call[c1].rec.id = id
    /\ Idle(c2, "store") /\ ret[c2] = TRUE /\ call[c2].rec.id = id
    /\ storeCount[id] = 2

\* The primary table holds record r under its id and nothing else for the id
TableHolds(r) == \A row \in RowsOf(r.id) : row = ToRow(r, row.rowid)

\* The index holds the projection of record r under its id and nothing else
IndexHolds(r) == \A e \in EntriesOf(r.id) : e = ToFtsEntry(r, e.rowid)

\* C18 (same-id write race): after two callers have both stored a record
\* under the same id with result True, the primary table and the index both
\* hold the fields of the record committed last and of no other record.
C18_SameIdRace ==
    \A c1, c2 \in AllCallers : \A id \in Ids :
        BothStored(c1, c2, id) =>
            LET r == Val(stored[id])
            IN /\ r \in {call[c1].rec, call[c2].rec}
               /\ RowsOf(id) # {} /\ TableHolds(r)
               /\ EntriesOf(id) # {} /\ IndexHolds(r)

\* C20 (report snapshot consistency): in a populated performance report the
\* embedded trend sub-report is never the "no records" result, and when it is
\* populated its meetings_analyzed equals total_meetings, also with stores of
\* other callers interleaved.
C20_SnapshotConsistency ==
    \A c \in AllCallers :
        PopulatedPerformance(c) =>
            LET sub == ret[c].sentiment_trends
            IN /\ sub # NoMeetingsResult
               /\ DOMAIN sub = TrendKeys =>
                    sub.meetings_analyzed = ret[c].total_meetings

\* C19 (connection release): whenever every operation has returned, no
\* connection opened by an operation (store, get, recent, search, date range,
\* delete; success path and error paths) is still open.
C19_ConnectionRelease ==
    (\A c \in AllCallers : pc[c] = "idle") => ~unreleased

====
